---- MODULE Spec2Model ----
(***************************************************************************)
(* Model of the Smart Memory AI Agent (src/app.py): a Streamlit script     *)
(* that is re-run from top to bottom on every widget event of a browser    *)
(* session.  The state is the MySQL users table, the durable memory store  *)
(* behind mem_client, and each session's st.session_state together with    *)
(* the locals of the script run the session is executing.  A run that      *)
(* handles a conversation turn suspends at each provider call              *)
(* (mem_client.search, generate_content, mem_client.add), where runs of    *)
(* other sessions interleave and where the call may raise.                 *)
(***************************************************************************)
EXTENDS Naturals, Sequences, FiniteSets, TLC

(* ------------------------------ bounds --------------------------------- *)

\* longest chat history for which a further turn is still explored
MaxHist == 2
\* most records the store holds for one owner and one statement
MaxRecs == 3

(* ------------------------------ inputs --------------------------------- *)

Sessions == {"s1", "s2"}
Emails == {"u1", "u2"}
\* what a form field can hold: "" is the empty field
EmailInputs == Emails \cup {""}
\* the password a user registers with, and the ones tried at login
RegisterPasswords == {"p", ""}
LoginPasswords == {"p", "q", ""}

\* Python's None, as a session_state.get default and as a missing result
None == <<"None">>
NoUser == "None"

\* what the user types into the text area: nothing, a blank, a message, the
\* same message after a blank
Texts == {<<>>, <<" ">>, <<"a">>, <<" ", "a">>}

(* --------------------------- pure functions ---------------------------- *)

RECURSIVE lstrip(_)
lstrip(t) == IF t # <<>> /\ Head(t) = " " THEN lstrip(Tail(t)) ELSE t

RECURSIVE rstrip(_)
rstrip(t) ==
    IF t # <<>> /\ t[Len(t)] = " " THEN rstrip(SubSeq(t, 1, Len(t) - 1)) ELSE t

\* str.strip(): leading and trailing whitespace removed
strip(t) == rstrip(lstrip(t))

\* bcrypt.hashpw / bcrypt.checkpw: the hash matches exactly the password hashed
hashpw(password) == <<"bcrypt", password>>
checkpw(password, password_hash) == password_hash = hashpw(password)

\* session_state as the dictionary the script uses it as: the keys present and
\* their values (an assignment to a key always takes effect)
Has(ss, k) == k \in DOMAIN ss
Get(ss, k, default) == IF k \in DOMAIN ss THEN ss[k] ELSE default
Put(ss, k, v) == [x \in DOMAIN ss \cup {k} |-> IF x = k THEN v ELSE ss[x]]
Pop(ss, k) == [x \in DOMAIN ss \ {k} |-> ss[x]]
EmptyDict == [x \in {} |-> None]

(* ------------------------------- state --------------------------------- *)

VARIABLES
    users,          \* MySQL table users: email -> password_hash
    store,          \* durable memory behind mem_client: record -> how many exist
    session_state,  \* st.session_state of each browser session
    authed,         \* what authenticate_user last returned to a session's login
    pc,             \* where each session's script run stands
    frame           \* locals of each session's current (or last) script run

vars == <<users, store, session_state, authed, pc, frame>>

\* stripped, non-blank texts: what a turn can be about
Queries == {strip(t) : t \in Texts} \ {<<>>}

\* a memory record: owner_id is the user_id the add call carried, text the
\* distilled statement; writer is the login of the session that issued the add
Recs == [owner : Emails, writer : Emails, text : Queries]

\* locals of a run that has just started on event ev
Frame0(ev) ==
    [ev |-> ev, user_id |-> NoUser, user_query |-> None, search_memory |-> {},
     ai_response |-> None, dup |-> FALSE, status |-> "ok", trace |-> <<>>]

Init ==
    /\ users = [e \in {} |-> None]
    /\ store = [r \in Recs |-> 0]
    /\ session_state = [s \in Sessions |-> EmptyDict]
    /\ authed = [s \in Sessions |-> NoUser]
    /\ pc = [s \in Sessions |-> "idle"]
    /\ frame = [s \in Sessions |-> Frame0("none")]

(* ------------------------- authentication ------------------------------ *)

\* register_user: INSERT into users; the UNIQUE email makes a second insert fail
register_user(email, password) ==
    IF email \in DOMAIN users THEN users
    ELSE [e \in DOMAIN users \cup {email} |->
             IF e = email THEN hashpw(password) ELSE users[e]]

\* authenticate_user: the stored email when the password matches, else None
authenticate_user(email, password) ==
    IF email \in DOMAIN users /\ checkpw(password, users[email])
    THEN email ELSE NoUser

\* Logout forgetting the chat history
LogoutKeysUserOnly == {"user_email"}

\* the keys Logout pops
LogoutKeys == {"user_email", "chat_history"}

\* the user id kept in one place for the whole process instead of per session:
\* the login of whichever session logged in
UserIdShared(ss) ==
    LET logged == {t \in Sessions : "user_email" \in DOMAIN session_state[t]}
    IN  IF logged = {} THEN ss["user_email"]
        ELSE session_state[CHOOSE t \in logged : TRUE]["user_email"]

\* user_id = st.session_state.user_email
UserId(ss) == ss["user_email"]

(* ----------------------------- chat turn ------------------------------- *)

\* the trigger without the comparison against last_input
TriggeredAnyText(user_input, last_input, send_clicked) ==
    user_input # <<>> \/ send_clicked

\* the condition under which the script submits the text area's content
Triggered(user_input, last_input, send_clicked) ==
    (user_input # <<>> /\ last_input # user_input) \/ send_clicked

\* memories: one "Memory: ..." line per search result
Memories(search_memory) == {<<"Memory", m.text>> : m \in search_memory}

\* a prompt built without the retrieved memories
SystemPromptNoContext(memories, user_query) == [context |-> {}, message |-> user_query]

\* system_prompt: the memories and the user message
SystemPrompt(memories, user_query) == [context |-> memories, message |-> user_query]

\* the messages handed to mem_client.add
AddMessages(user_query, ai_response) ==
    << [role |-> "user", content |-> user_query],
       [role |-> "assistant", content |-> ai_response] >>

\* the entry appended to chat_history
ChatEntry(user_query, ai_response) == [user |-> user_query, ai |-> ai_response]

\* Clear Chat removing only the latest entry
ClearedHistoryDropLast(chat_history) ==
    IF chat_history = <<>> THEN <<>>
    ELSE SubSeq(chat_history, 1, Len(chat_history) - 1)

\* the value Clear Chat gives chat_history
ClearedHistory(chat_history) == <<>>

\* what an ended run leaves behind: only whether it reached the end of the
\* script (and so drew the Clear Chat button) or stopped on an exception
Ended(status) == [Frame0("none") EXCEPT !.status = status]

\* the end of a run that reached the sidebar utilities
Finish(s, ss, fr) ==
    /\ session_state' = [session_state EXCEPT ![s] =
           IF fr.ev = "clear"
           THEN Put(ss, "chat_history", ClearedHistory(ss["chat_history"]))
           ELSE ss]
    /\ pc' = [pc EXCEPT ![s] = "idle"]
    /\ frame' = [frame EXCEPT ![s] = Ended("ok")]

\* the chat section of a run of session s whose state is ss, the text area
\* holding text: up to the first provider call, or to the end of the script
ChatSection(s, ss, ev, text, send_clicked) ==
    LET user_id == UserId(ss)
        ss1 == IF Has(ss, "chat_history") THEN ss ELSE Put(ss, "chat_history", <<>>)
        ss2 == Put(ss1, "user_input", text)
        go == /\ Triggered(text, Get(ss2, "last_input", None), send_clicked)
              /\ strip(text) # <<>>
        ss3 == Put(Put(ss2, "last_input", text), "user_input", strip(text))
        user_query == strip(ss3["user_input"])
        fr == [Frame0(ev) EXCEPT !.user_id = user_id]
    IN  IF go /\ user_query # <<>>
        THEN /\ Len(ss3["chat_history"]) < MaxHist
             /\ session_state' = [session_state EXCEPT ![s] = ss3]
             /\ pc' = [pc EXCEPT ![s] = "search"]
             /\ frame' = [frame EXCEPT ![s] =
                    [fr EXCEPT !.user_query = user_query, !.status = "running"]]
        ELSE Finish(s, IF go THEN ss3 ELSE ss2, fr)

\* a run that never reaches the chat section: the text area is not drawn, and
\* Streamlit drops the state of a keyed widget that a run does not draw
NoChat(s, ss) ==
    /\ session_state' = [session_state EXCEPT ![s] = Pop(ss, "user_input")]
    /\ frame' = [frame EXCEPT ![s] = Ended("ok")]
    /\ pc' = pc

Idle(s) == pc[s] = "idle"
LoggedIn(s) == Has(session_state[s], "user_email")

(* ------------------------- script runs (events) ------------------------ *)

\* Register button with the two form fields
Register(s) ==
    \E email \in EmailInputs, password \in RegisterPasswords :
        /\ Idle(s) /\ ~LoggedIn(s)
        /\ users' = IF email # "" /\ password # ""
                    THEN register_user(email, password) ELSE users
        /\ NoChat(s, session_state[s])
        /\ UNCHANGED <<store, authed>>

\* Login button: on success user_email is set and the script re-runs at once
Login(s) ==
    \E email \in EmailInputs, password \in LoginPasswords :
        LET user_email == authenticate_user(email, password) IN
        /\ Idle(s) /\ ~LoggedIn(s)
        /\ authed' = [authed EXCEPT ![s] = user_email]
        /\ IF user_email # NoUser
           THEN ChatSection(s, Put(session_state[s], "user_email", user_email),
                            "login", Get(session_state[s], "user_input", <<>>), FALSE)
           ELSE NoChat(s, session_state[s])
        /\ UNCHANGED <<users, store>>

\* Logout button: the keys are popped and the script re-runs logged out
Logout(s) ==
    /\ Idle(s) /\ LoggedIn(s)
    /\ authed' = [authed EXCEPT ![s] = NoUser]
    /\ NoChat(s, [k \in DOMAIN session_state[s] \ LogoutKeys |-> session_state[s][k]])
    /\ UNCHANGED <<users, store>>

\* the user changes the text area's content to text (which re-runs the script)
TypeTextWith(s, text) ==
    /\ Idle(s) /\ LoggedIn(s)
    /\ text # Get(session_state[s], "user_input", <<>>)
    /\ ChatSection(s, session_state[s], "type", text, FALSE)
    /\ UNCHANGED <<users, store, authed>>

TypeText(s) == \E text \in Texts : TypeTextWith(s, text)

\* the Send button, with whatever the text area holds at the click
SendWith(s, text) ==
    /\ Idle(s) /\ LoggedIn(s)
    /\ ChatSection(s, session_state[s], "send", text, TRUE)
    /\ UNCHANGED <<users, store, authed>>

Send(s) == \E text \in Texts : SendWith(s, text)

\* the Clear Chat button, drawn only by a run that reached the end of the script
ClearChat(s) ==
    /\ Idle(s) /\ LoggedIn(s)
    /\ frame[s].status = "ok"
    /\ ChatSection(s, session_state[s], "clear",
                   Get(session_state[s], "user_input", <<>>), FALSE)
    /\ UNCHANGED <<users, store, authed>>

(* ---------------------------- memory store ----------------------------- *)

\* search(query, user_id): the stored records of that owner
mem_search(st, user_id) == {r \in Recs : r.owner = user_id /\ st[r] > 0}

\* the statement add distils from the messages of a turn
Candidate(messages) == messages[1].content

\* whether the owner already holds a near-duplicate of the statement
NearDuplicate(st, user_id, statement) ==
    \E r \in Recs : r.owner = user_id /\ r.text = statement /\ st[r] > 0

\* add creating a record whether or not a near-duplicate exists
MergeAlwaysCreate(st, user_id, writer, statement, dup) ==
    LET r == [owner |-> user_id, writer |-> writer, text |-> statement]
    IN [st EXCEPT ![r] = @ + 1]

\* the merge policy: a near-duplicate is updated in place, otherwise a record
\* is created under the owner
Merge(st, user_id, writer, statement, dup) ==
    IF dup THEN st
    ELSE LET r == [owner |-> user_id, writer |-> writer, text |-> statement]
         IN [st EXCEPT ![r] = @ + 1]

\* records the owner holds for the statement
RecCount(st, user_id, statement) ==
    LET rs == {r \in Recs : r.owner = user_id /\ r.text = statement}
        RECURSIVE Sum(_)
        Sum(S) == IF S = {} THEN 0
                  ELSE LET r == CHOOSE x \in S : TRUE IN st[r] + Sum(S \ {r})
    IN Sum(rs)

(* ------------------------- steps of a chat turn ------------------------ *)

Call(op, user_id, arg) == [op |-> op, user_id |-> user_id, arg |-> arg]

\* an exception leaves submit_message and ends the script run
Raise(s) ==
    /\ pc' = [pc EXCEPT ![s] = "idle"]
    /\ frame' = [frame EXCEPT ![s] = Ended("raised")]
    /\ UNCHANGED <<users, store, session_state, authed>>

SearchCall(s) ==
    [frame[s] EXCEPT !.trace =
        Append(@, Call("search", frame[s].user_id, frame[s].user_query))]

\* mem_client.search returns
SearchOk(s) ==
    /\ pc[s] = "search"
    /\ frame' = [frame EXCEPT ![s] =
           [SearchCall(s) EXCEPT !.search_memory = mem_search(store, frame[s].user_id)]]
    /\ pc' = [pc EXCEPT ![s] = "generate"]
    /\ UNCHANGED <<users, store, session_state, authed>>

\* mem_client.search raises
SearchFail(s) ==
    /\ pc[s] = "search"
    /\ Raise(s)

GenerateCall(s) ==
    [frame[s] EXCEPT !.trace =
        Append(@, Call("generate", NoUser,
                       SystemPrompt(Memories(frame[s].search_memory), frame[s].user_query)))]

\* the text the Generation Provider returns for a prompt
ResponseText(system_prompt) == <<"reply to", system_prompt.message>>

\* generate_content returns a reply
GenerateOk(s) ==
    /\ pc[s] = "generate"
    /\ frame' = [frame EXCEPT ![s] =
           [GenerateCall(s) EXCEPT !.ai_response =
               ResponseText(SystemPrompt(Memories(frame[s].search_memory),
                                         frame[s].user_query))]]
    /\ pc' = [pc EXCEPT ![s] = "add"]
    /\ UNCHANGED <<users, store, session_state, authed>>

\* generate_content raises
GenerateFail(s) ==
    /\ pc[s] = "generate"
    /\ Raise(s)

AddCall(s) ==
    [frame[s] EXCEPT !.trace =
        Append(@, Call("add", frame[s].user_id,
                       AddMessages(frame[s].user_query, frame[s].ai_response)))]

\* mem_client.add is called: it distils the statement and looks for a
\* near-duplicate among the owner's records
AddRead(s) ==
    /\ pc[s] = "add"
    /\ frame' = [frame EXCEPT ![s] =
           [AddCall(s) EXCEPT !.dup =
               NearDuplicate(store, frame[s].user_id,
                   Candidate(AddMessages(frame[s].user_query, frame[s].ai_response)))]]
    /\ pc' = [pc EXCEPT ![s] = "merge"]
    /\ UNCHANGED <<users, store, session_state, authed>>

\* mem_client.add raises, before or after its lookup
AddFail(s) ==
    /\ pc[s] \in {"add", "merge"}
    /\ Raise(s)

\* mem_client.add writes and returns; the handler appends the turn to
\* chat_history, empties the text area, and the script runs to its end
AddWrite(s) ==
    LET fr == frame[s]
        statement == Candidate(fr.trace[Len(fr.trace)].arg)
        ss == session_state[s]
        ss1 == Put(ss, "chat_history",
                   Append(ss["chat_history"], ChatEntry(fr.user_query, fr.ai_response)))
        ss2 == Put(ss1, "user_input", <<>>)
    IN  /\ pc[s] = "merge"
        /\ RecCount(store, fr.user_id, statement) < MaxRecs
        /\ store' = Merge(store, fr.user_id, authed[s], statement, fr.dup)
        /\ Finish(s, ss2, fr)
        /\ UNCHANGED <<users, authed>>

(* --------------------------- specifications ---------------------------- *)

Next ==
    \E s \in Sessions :
        \/ Register(s)
        \/ Login(s)
        \/ Logout(s)
        \/ TypeText(s)
        \/ Send(s)
        \/ ClearChat(s)
        \/ SearchOk(s)
        \/ SearchFail(s)
        \/ GenerateOk(s)
        \/ GenerateFail(s)
        \/ AddRead(s)
        \/ AddFail(s)
        \/ AddWrite(s)

Spec == Init /\ [][Next]_vars

\* The same program with the extraction-and-merge step of add serialized per
\* owner: an add starts its lookup only when no other add of that owner is
\* between its lookup and its write.
SerialAddRead(s) ==
    /\ \A t \in Sessions \ {s} :
           ~(pc[t] = "merge" /\ frame[t].user_id = frame[s].user_id)
    /\ AddRead(s)

NextSeq ==
    \E s \in Sessions :
        \/ Register(s)
        \/ Login(s)
        \/ Logout(s)
        \/ TypeText(s)
        \/ Send(s)
        \/ ClearChat(s)
        \/ SearchOk(s)
        \/ SearchFail(s)
        \/ GenerateOk(s)
        \/ GenerateFail(s)
        \/ SerialAddRead(s)
        \/ AddFail(s)
        \/ AddWrite(s)

SpecSeq == Init /\ [][NextSeq]_vars

(* ------------------------------ properties ----------------------------- *)

ChatHistory(ss) == Get(ss, "chat_history", <<>>)
Owner(s) == Get(session_state[s], "user_email", NoUser)
MemoryCalls(s) ==
    {frame[s].trace[i] : i \in {j \in 1..Len(frame[s].trace) :
                                    frame[s].trace[j].op \in {"search", "add"}}}

\* C1: owner isolation.  Every record of the store was written by a session
\* logged in as the record's owner, what a search returns to a session was
\* written under that session's own login, and every search and add of a
\* session carries that session's login as user_id.
C1_OwnerIsolation ==
    /\ \A r \in Recs : store[r] > 0 => r.writer = r.owner
    /\ \A s \in Sessions :
          /\ \A m \in frame[s].search_memory : m.writer = Owner(s) /\ m.owner = Owner(s)
          /\ \A c \in MemoryCalls(s) : Owner(s) # NoUser /\ c.user_id = Owner(s)

\* a search has returned memories to a session while the store also holds
\* records of another owner
C1_Witness ==
    \E s \in Sessions :
        /\ frame[s].search_memory # {}
        /\ \E r \in Recs : store[r] > 0 /\ r.owner # Owner(s)

\* C2: once the Generation Provider has produced the reply, the run ends
\* with that reply appended to chat_history, also when add fails.
C2_ReplyDelivered ==
    [][\A s \in Sessions :
          (pc[s] \in {"add", "merge"} /\ pc'[s] = "idle") =>
              LET h == ChatHistory(session_state'[s])
              IN  /\ Len(h) = Len(ChatHistory(session_state[s])) + 1
                  /\ h[Len(h)].ai = frame[s].ai_response]_vars

\* C3: a turn whose search is under way goes on to the Generation Provider
\* (with an empty context when the search failed); the search never ends
\* the run with an exception.
C3_SearchDegrades ==
    [][\A s \in Sessions :
          pc[s] = "search" =>
              /\ frame'[s].status # "raised"
              /\ pc'[s] \in {"search", "generate"}]_vars

\* C4: a turn whose generation is under way never ends the run with an
\* exception: it goes on, or ends normally with an entry (the reply or a
\* visible error message) in chat_history.
C4_GenerationDegrades ==
    [][\A s \in Sessions :
          pc[s] = "generate" =>
              /\ frame'[s].status # "raised"
              /\ \/ pc'[s] \in {"generate", "add"}
                 \/ Len(ChatHistory(session_state'[s]))
                        = Len(ChatHistory(session_state[s])) + 1]_vars

\* C5: idempotent merge.  When an add writes, the owner then holds exactly
\* one record of the statement, and an add of a statement the owner already
\* holds leaves the store as it was.
C5_IdempotentMerge ==
    [][\A s \in Sessions :
          AddWrite(s) =>
              LET statement == frame[s].user_query
              IN  /\ RecCount(store', frame[s].user_id, statement) = 1
                  /\ RecCount(store, frame[s].user_id, statement) >= 1
                         => store' = store]_vars

\* an add has found a near-duplicate of its statement: a second add of the
\* statement under the owner
C5_Witness ==
    \E s \in Sessions :
        /\ pc[s] = "merge" /\ frame[s].dup
        /\ RecCount(store, frame[s].user_id, frame[s].user_query) = 1

\* C6: per-owner serialization.  No interleaving of the turns of one owner
\* creates two records of one statement.
C6_NoDuplicateRecords ==
    \A o \in Emails, q \in Queries : RecCount(store, o, q) <= 1

\* C7: turn ordering.  The calls of a run are search, then generate, then
\* add; the prompt holds the memories that run's search returned and the
\* user text; add gets the user text of the turn and the reply made in it.
C7_TurnOrder ==
    \A s \in Sessions :
        LET fr == frame[s]
            tr == fr.trace
        IN  /\ Len(tr) = CASE pc[s] = "generate" -> 1
                           [] pc[s] = "add" -> 2
                           [] pc[s] = "merge" -> 3
                           [] OTHER -> 0
            /\ pc[s] # "idle" =>
                  fr.user_query = strip(session_state[s]["last_input"])
            /\ Len(tr) >= 1 => tr[1].op = "search" /\ tr[1].arg = fr.user_query
            /\ Len(tr) >= 2 =>
                  /\ tr[2].op = "generate"
                  /\ tr[2].arg.message = fr.user_query
                  /\ tr[2].arg.context = {<<"Memory", m.text>> : m \in fr.search_memory}
            /\ Len(tr) >= 3 =>
                  /\ tr[3].op = "add"
                  /\ fr.ai_response # None
                  /\ tr[3].arg = << [role |-> "user", content |-> fr.user_query],
                                    [role |-> "assistant", content |-> fr.ai_response] >>

\* add has been called in a turn whose search returned memories
C7_Witness ==
    \E s \in Sessions : pc[s] = "merge" /\ frame[s].search_memory # {}

\* C8: memory operations only for an authenticated owner.  A session holds
\* user_email only as authenticate_user returned it for a registered user;
\* every search and add carries it; a logged-out session holds neither
\* user_email nor chat_history and runs no turn.
C8_AuthenticatedOwner ==
    \A s \in Sessions :
        /\ LoggedIn(s) =>
              /\ authed[s] # NoUser
              /\ session_state[s]["user_email"] = authed[s]
              /\ authed[s] \in DOMAIN users
        /\ \A c \in MemoryCalls(s) : LoggedIn(s) /\ c.user_id = authed[s]
        /\ ~LoggedIn(s) =>
              /\ ~Has(session_state[s], "chat_history")
              /\ pc[s] = "idle"
              /\ frame[s].trace = <<>>

\* a session that handled a turn and has logged out
C8_Witness ==
    \E s \in Sessions :
        /\ ~LoggedIn(s)
        /\ Has(session_state[s], "last_input")
        /\ \E r \in Recs : store[r] > 0

\* C9: chat history is transient.  Clear Chat and Logout leave the store
\* unchanged and the session with an empty or no chat_history; a handled
\* turn appends exactly the entry (user text, reply).
C9_TransientHistory ==
    [][\A s \in Sessions :
          /\ (ClearChat(s) \/ Logout(s)) =>
                /\ store' = store
                /\ ChatHistory(session_state'[s]) = <<>>
          /\ AddWrite(s) =>
                session_state'[s]["chat_history"] =
                    Append(session_state[s]["chat_history"],
                           [user |-> frame[s].user_query, ai |-> frame[s].ai_response])]_vars

\* a logged-in session shows an empty history while the store holds a record
\* of its owner
C9_Witness ==
    \E s \in Sessions :
        /\ LoggedIn(s)
        /\ Has(session_state[s], "chat_history")
        /\ session_state[s]["chat_history"] = <<>>
        /\ mem_search(store, Owner(s)) # {}

\* a run of the chat section of session s with text in the text area
ChatRun(s, text, send_clicked) ==
    \/ send_clicked /\ SendWith(s, text)
    \/ ~send_clicked /\ TypeTextWith(s, text)
    \/ ~send_clicked /\ text = Get(session_state[s], "user_input", <<>>) /\ ClearChat(s)

\* the input of a run does not ask for a turn
NoSubmit(s, text, send_clicked) ==
    \/ strip(text) = <<>>
    \/ ~send_clicked /\ text = Get(session_state[s], "last_input", None)

====
